---- MODULE Spec2Model ----
(***************************************************************************)
(* podscriber: the pipeline orchestrator (main.py), the processing ledger  *)
(* (state.py), audio acquisition (audio.py) and the publication adapter    *)
(* (notion_writer.py) as a state machine.                                  *)
(*                                                                         *)
(* Persistent state: the ledger file, the temp directory and the pages of  *)
(* the publication destination.  A run is one process executing main();    *)
(* its memory (the StateManager's _state, the locals of main and of        *)
(* _process_episode) is lost when the process ends.                        *)
(*                                                                         *)
(* main calls load_config with a keyword that config.load_config does not  *)
(* declare, so with config.py as it is every run ends in LoadConfig.  The  *)
(* rest of main is modelled as written and is reached in the behaviours    *)
(* in which the name load_config is bound to a function that returns a     *)
(* Config (loader = "stub"), which is how main's body can be exercised.    *)
(*                                                                         *)
(* Spec is the orchestrator with its collaborators as steps that succeed   *)
(* or raise; SpecLive is the same orchestrator started again and again in  *)
(* all-unprocessed mode, under weak fairness of its step.  The ledger      *)
(* (SpecLedger), the episode directory (SpecFeed), download_audio          *)
(* (SpecDownload), split_audio_if_needed (SpecSplit), create_episode_page  *)
(* (SpecPublish) and extract_insights (SpecExtract) are also driven on     *)
(* their own, with their inputs and results in full.                       *)
(*                                                                         *)
(* The environment: every network call can raise; the ledger file can     *)
(* fail to open or fail while it is written; files the process created in  *)
(* the temp directory can always be unlinked.                              *)
(***************************************************************************)
EXTENDS Integers, Sequences, FiniteSets, TLC

\* ------------------------------------------------------------------ bounds
NumEpisodes == 2      \* audio-bearing entries of the feed
MaxRuns == 2          \* processes started one after the other
MaxFailures == 2      \* stage failures (exceptions reaching _process_episode), at most
MaxMarks == 3         \* mark_processed calls on the ledger on its own, at most

\* ------------------------------------------------------- program constants
DOWNLOAD_RETRIES == 3
NOTION_BLOCK_LIMIT == 100
WHISPER_MAX_BYTES == 25165824     \* 24 * 1024 * 1024
chunk_ms == 600000                \* 10 * 60 * 1000, 10 minutes in milliseconds

\* Python's None, and an optional int as a sequence of length at most one.
None == <<>>
Some(x) == <<x>>
IsNone(o) == Len(o) = 0
Val(o) == o[1]

Range(s) == {s[i] : i \in 1..Len(s)}
Min(a, b) == IF a < b THEN a ELSE b
Max(a, b) == IF a > b THEN a ELSE b

\* ----------------------------------------------------------- configuration
\* The variables load_config requires.
Required ==
    {"OPENAI_API_KEY", "ANTHROPIC_API_KEY", "NOTION_API_KEY",
     "NOTION_DATABASE_ID", "RSS_FEED_URL"}

\* The keyword parameters of config.load_config.
LoadConfigParams == {"feed_url_override"}

\* The keyword arguments main passes to load_config.
MainCallKwargs == {"feed_url_override", "database_id_override"}

\* Python's call binding: a keyword the callee does not declare is a TypeError,
\* raised before the callee's body runs.
BindsOK(kwargs, params) == kwargs \subseteq params

\* load_config's validation: the required variables that are unset or empty.
Missing(environment) == Required \ environment

\* The Config load_config builds (config.py 37-44): the destination is the
\* value of NOTION_DATABASE_ID.
ConfigFrom(environment) == [notion_database_id |-> "env_database"]

\* ------------------------------------------------------------------- feed
\* parse_feed's result for the feed of this behaviour: episodes numbered 1..k,
\* oldest first.
TitleOf(i) == <<"title", i>>
EpisodeRec(i) == [number |-> i, title |-> TitleOf(i)]
FeedOf(k) == [i \in 1..k |-> EpisodeRec(i)]

\* ----------------------------------------------------------------- ledger
\* str(episode_number): the decimal digits.
RECURSIVE Str(_)
Str(n) == IF n < 10 THEN <<n>> ELSE Append(Str(n \div 10), n % 10)

\* A Python dict: a sequence of [key, val] members with distinct keys, in
\* insertion order.
HasKey(d, k) == \E i \in 1..Len(d) : d[i].key = k
DictGet(d, k) == d[CHOOSE i \in 1..Len(d) : d[i].key = k].val
DictSet_Append(d, k, v) == Append(d, [key |-> k, val |-> v])
DictSet(d, k, v) ==
    IF HasKey(d, k)
    THEN [i \in 1..Len(d) |-> IF d[i].key = k THEN [key |-> k, val |-> v] ELSE d[i]]
    ELSE Append(d, [key |-> k, val |-> v])
Keys(d) == {d[i].key : i \in 1..Len(d)}

\* The ledger file: absent, or a JSON text that is a complete object (its
\* members in order) or a text cut short (open(..., "w") truncated it and the
\* dump did not finish).
NoFile == [exists |-> FALSE, complete |-> FALSE, members |-> <<>>]
CutFile == [exists |-> TRUE, complete |-> FALSE, members |-> <<>>]
JsonDump(d) == [exists |-> TRUE, complete |-> TRUE, members |-> d]

\* json.load of a complete object: the members inserted in order.
RECURSIVE JsonLoad(_)
JsonLoad(ms) ==
    IF Len(ms) = 0 THEN <<>>
    ELSE DictSet(JsonLoad(SubSeq(ms, 1, Len(ms) - 1)), ms[Len(ms)].key, ms[Len(ms)].val)

\* StateManager._load: {} without a file; JSONDecodeError on a cut text.
LoadRaises(f) == f.exists /\ ~f.complete
Load(f) == IF f.exists THEN JsonLoad(f.members) ELSE <<>>

is_processed_Never(s, n) == FALSE
is_processed(s, n) == HasKey(s, Str(n))

get_processed_count(s) == Len(s)

Entry(title, url, now) == [title |-> title, notion_url |-> url, processed_at |-> now]

\* The assignment of mark_processed, before _save.
mark_processed_state(s, n, url, title, now) == DictSet(s, Str(n), Entry(title, url, now))

\* ------------------------------------------------------------- temp files
RawFile(n) == <<n, 0>>              \* episode_<n>.mp3
ChunkFile(n, i) == <<n, i + 1>>     \* episode_<n>_chunk<i>.mp3, i = 0, 1, ...
FilesOf(n, files) == {f \in files : f[1] = n}

\* cleanup_audio: unlink(missing_ok=True) of every path.
cleanup_audio(files, paths) == files \ Range(paths)

\* ---------------------------------------------------------------- options
EpisodeArgs == {None} \cup {Some(n) : n \in 1..(NumEpisodes + 1)}
FromArgs == {None, Some(2)}
LimitArgs == {None, Some(-1), Some(0), Some(1)}
DatabaseArgs == {None, Some("cli_database")}
\* The command lines considered: every batch command line, and the single
\* episode mode alone or together with both batch options; each of them
\* without --database, and the plain command line with --database.  main
\* only hands --database to load_config, so it is varied where load_config is
\* config.py's.
Options ==
    [episode : {None}, from_episode : FromArgs, limit : LimitArgs, dry_run : BOOLEAN,
     database_id : {None}]
    \cup [episode : EpisodeArgs \ {None}, from_episode : {None}, limit : {None},
          dry_run : BOOLEAN, database_id : {None}]
    \cup [episode : EpisodeArgs \ {None}, from_episode : {Some(2)}, limit : {Some(0)},
          dry_run : BOOLEAN, database_id : {None}]
    \cup [episode : {None}, from_episode : {None}, limit : {None}, dry_run : {FALSE},
          database_id : DatabaseArgs \ {None}]

CommandLines(l) ==
    IF l = "config" THEN Options ELSE {o \in Options : IsNone(o.database_id)}

\* targets[:limit]
Slice(s, limit) ==
    IF limit >= 0 THEN SubSeq(s, 1, Min(limit, Len(s)))
    ELSE SubSeq(s, 1, Max(Len(s) + limit, 0))

\* main's selection of the targets (main.py 42-52).
SelectSingle(episodes, o) ==
    SelectSeq(episodes, LAMBDA ep : ep.number = Val(o.episode))

Floor_Strict(t, from_episode) ==
    IF IsNone(from_episode) THEN t
    ELSE SelectSeq(t, LAMBDA ep : ep.number > Val(from_episode))
Floor(t, from_episode) ==
    IF IsNone(from_episode) THEN t
    ELSE SelectSeq(t, LAMBDA ep : ep.number >= Val(from_episode))

SelectBatch(episodes, s, o) ==
    LET unprocessed == SelectSeq(episodes, LAMBDA ep : ~is_processed(s, ep.number))
        floored == Floor(unprocessed, o.from_episode)
    IN IF IsNone(o.limit) THEN floored ELSE Slice(floored, Val(o.limit))

SelectTargets_AlwaysFiltered(episodes, s, o) ==
    IF ~IsNone(o.episode) THEN SelectBatch(SelectSingle(episodes, o), s, o)
    ELSE SelectBatch(episodes, s, o)
SelectTargets(episodes, s, o) ==
    IF ~IsNone(o.episode) THEN SelectSingle(episodes, o)
    ELSE SelectBatch(episodes, s, o)

\* ------------------------------------------------------------ publication
\* The number of rendered blocks of a page (from _build_blocks: 19 when every
\* list is empty, more with list items and recipes).
BlockCounts == {19, 100, 101, 250}

\* The append calls that follow pages.create: range(0, len(remaining), 100).
AppendCalls(nBlocks) ==
    LET remaining == Max(nBlocks - NOTION_BLOCK_LIMIT, 0)
    IN (remaining + NOTION_BLOCK_LIMIT - 1) \div NOTION_BLOCK_LIMIT

\* ------------------------------------------------------------------ state
VARIABLES
    loader,       \* what main's name load_config is bound to: "config" (config.py) or "stub"
    environ,      \* the required variables that are set and non-empty
    feed,         \* what parse_feed returns for the (unchanged) feed
    ledgerFile,   \* processed_episodes.json
    disk,         \* the files of the temp directory
    pages,        \* the pages of the destination database: [id, episode]
    clock,        \* datetime.utcnow(), as a counter
    run,          \* processes started so far
    pc,           \* position of the running process
    exitCode,     \* exit code of the process that ended last
    opts,         \* the command line of the running process
    st,           \* StateManager._state
    targets,      \* main's targets
    ti,           \* index of the loop over targets
    audio_paths,  \* _process_episode's audio_paths
    attempt,      \* download_audio's attempt
    rawSize,      \* size class of the downloaded file: "small" (<= 24 MB) or "large"
    appendsLeft,  \* append calls create_episode_page still has to make
    notion_url,   \* _process_episode's notion_url
    failed,       \* the stage whose exception the invocation caught, or "none"
    config,       \* main's config: None until load_config has returned
    \* history
    published,    \* numbers for which create_episode_page has returned a URL
    firstEntry,   \* the ledger entry each key was created with
    calls,        \* collaborators invoked by the running process
    outcomes,     \* [ep, failed] of the invocations of the running process
    prev,         \* summary of the previous process
    fileAtStart,  \* the ledger file when the running process started
    failures,     \* stage failures so far
    \* the ledger on its own (SpecLedger)
    called,       \* numbers mark_processed has been called with
    marked,       \* numbers for which mark_processed has returned
    markArg,      \* the number of the mark_processed call in progress
    marks,        \* mark_processed calls that have returned
    \* the episode directory on its own (SpecFeed)
    entries,      \* feed.entries, in document order
    episodes,     \* what the last parse_feed returned
    seen,         \* the parse_feed before it: the entries it saw, what it returned
    \* split_audio_if_needed on its own (SpecSplit)
    raw_path,     \* the file download_audio returned
    fileBytes,    \* its st_size
    duration,     \* len(audio): its decoded length in milliseconds
    segments,     \* the stretch of the audio each exported chunk holds
    \* create_episode_page on its own (SpecPublish)
    all_blocks,   \* the rendered blocks
    requests,     \* the write calls made so far, each with its children
    \* extract_insights on its own (SpecExtract)
    response,     \* tool_use_block.input
    insights,     \* the BrewingInsights returned
    \* download_audio on its own (SpecDownload)
    destBytes,    \* the bytes dest holds: which attempt wrote them, and whether all
    removed       \* what the files unlinked by download_audio held

vars ==
    <<loader, environ, feed, ledgerFile, disk, pages, clock, run, pc, exitCode,
      opts, st, targets, ti, audio_paths, attempt, rawSize, appendsLeft,
      notion_url, failed, config, published, firstEntry, calls, outcomes, prev,
      fileAtStart, failures, called, marked, markArg, marks, entries, episodes,
      seen, raw_path, fileBytes, duration, segments, all_blocks, requests,
      response, insights, destBytes, removed>>

persistent == <<ledgerFile, disk, pages>>
units ==
    <<entries, episodes, seen, raw_path, fileBytes, duration, segments, all_blocks,
      requests, response, insights, destBytes, removed>>
fixed == <<loader, environ, feed, called, marked, markArg, marks, units>>
locals == <<audio_paths, attempt, rawSize, appendsLeft, notion_url, failed>>
history == <<published, firstEntry, calls, outcomes, prev, fileAtStart>>
historyF == <<history, failures>>

NoOpts ==
    [episode |-> None, from_episode |-> None, limit |-> None, dry_run |-> FALSE,
     database_id |-> None]
NoPrev ==
    [batchAll |-> FALSE, code |-> 0, anyFailed |-> FALSE, invoked |-> 0, failed |-> {}]

\* All-unprocessed mode, not a dry run.
IsBatchAll(o) ==
    IsNone(o.episode) /\ IsNone(o.from_episode) /\ IsNone(o.limit) /\ ~o.dry_run

\* The variables of the parts driven on their own, while they are not.
\* Before any parse: the entries the parse before the last saw (ids), what it
\* returned (episodes), and the entries the last parse saw (latest).
NoParse == [ids |-> {}, episodes |-> <<>>, latest |-> {}]
NoFeedUnit == entries = <<>> /\ episodes = <<>> /\ seen = NoParse
NoSplitUnit == raw_path = <<>> /\ fileBytes = 0 /\ duration = 0 /\ segments = <<>>
NoPublishUnit == all_blocks = <<>> /\ requests = <<>>
NoExtractUnit == response = <<>> /\ insights = None
NoDownloadUnit == destBytes = <<>> /\ removed = <<>>
NoUnits ==
    NoFeedUnit /\ NoSplitUnit /\ NoPublishUnit /\ NoExtractUnit /\ NoDownloadUnit

Init ==
    /\ loader \in {"config", "stub"}
    /\ environ \in IF loader = "stub" THEN {Required} ELSE SUBSET Required
    /\ feed \in {FeedOf(0), FeedOf(NumEpisodes)}
    /\ ledgerFile = NoFile
    /\ disk = {}
    /\ pages = {}
    /\ clock = 0
    /\ run = 0
    /\ pc = "idle"
    /\ exitCode = 0
    /\ opts = NoOpts
    /\ st = <<>>
    /\ targets = <<>>
    /\ ti = 1
    /\ audio_paths = <<>>
    /\ attempt = 1
    /\ rawSize = "small"
    /\ appendsLeft = 0
    /\ notion_url = 0
    /\ failed = "none"
    /\ config = None
    /\ published = {}
    /\ firstEntry = <<>>
    /\ calls = {}
    /\ outcomes = <<>>
    /\ prev = NoPrev
    /\ fileAtStart = NoFile
    /\ failures = 0
    /\ called = {}
    /\ marked = {}
    /\ markArg = 0
    /\ marks = 0
    /\ NoUnits

\* The episode _process_episode is running for.
Current == targets[ti]

\* A stage may raise as long as the failure budget lasts.
MayFail == failures < MaxFailures
Raise(stage) ==
    /\ MayFail
    /\ failures' = failures + 1
    /\ failed' = stage

\* The process ends with this exit code.
Exit(code) ==
    /\ pc' = "exited"
    /\ exitCode' = code

\* A new process: python main.py; what it starts from.
NewProcess ==
    /\ pc \in {"idle", "exited"}
    /\ pc' = "load_config"
    /\ st' = <<>>
    /\ targets' = <<>>
    /\ ti' = 1
    /\ audio_paths' = <<>>
    /\ attempt' = 1
    /\ rawSize' = "small"
    /\ appendsLeft' = 0
    /\ notion_url' = 0
    /\ failed' = "none"
    /\ config' = None
    /\ calls' = {}
    /\ outcomes' = <<>>
    /\ prev' = IF pc = "idle" THEN NoPrev
               ELSE [batchAll |-> IsBatchAll(opts), code |-> exitCode,
                     anyFailed |-> \E i \in 1..Len(outcomes) : ~outcomes[i].ok,
                     invoked |-> Len(outcomes),
                     failed |-> {outcomes[i].ep : i \in {j \in 1..Len(outcomes) :
                                                           ~outcomes[j].ok}}]
    /\ fileAtStart' = ledgerFile
    /\ UNCHANGED <<fixed, persistent, clock, exitCode, published, firstEntry, failures>>

\* python main.py with some command line.
StartRun ==
    /\ run < MaxRuns
    /\ run' = run + 1
    /\ opts' \in CommandLines(loader)
    /\ NewProcess

\* main.py 28-32: load_config(feed_url_override=..., database_id_override=...).
\* With config.load_config the call does not bind and the TypeError, which the
\* except ValueError clause does not catch, ends the process with a traceback
\* (exit code 1).  The stub stands for a load_config that accepts the call and
\* returns the Config that config.py builds from the environment.
LoadConfig ==
    /\ pc = "load_config"
    /\ IF loader = "stub" \/ (BindsOK(MainCallKwargs, LoadConfigParams)
                              /\ Missing(environ) = {})
       THEN pc' = "state" /\ config' = Some(ConfigFrom(environ)) /\ UNCHANGED exitCode
       ELSE Exit(1) /\ UNCHANGED config
    /\ UNCHANGED <<fixed, persistent, clock, run, opts, st, targets, ti, locals, historyF>>

\* main.py 34: state = StateManager().  A ledger file that is not a complete
\* JSON text makes json.load raise; nothing catches it.
NewStateManager ==
    /\ pc = "state"
    /\ IF LoadRaises(ledgerFile)
       THEN Exit(1) /\ UNCHANGED st
       ELSE st' = Load(ledgerFile) /\ pc' = "select" /\ UNCHANGED exitCode
    /\ UNCHANGED <<fixed, config, persistent, clock, run, opts, targets, ti, locals, historyF>>

\* main.py 35-52: parse the feed and select the targets.  An empty feed ends
\* the run (return), a single episode that is not in the feed ends it with
\* sys.exit(1).
Select ==
    /\ pc = "select"
    /\ LET t == SelectTargets(feed, st, opts)
       IN IF Len(feed) = 0 THEN Exit(0) /\ UNCHANGED targets
          ELSE IF ~IsNone(opts.episode) /\ Len(t) = 0 THEN Exit(1) /\ targets' = t
          ELSE pc' = "announce" /\ targets' = t /\ UNCHANGED exitCode
    /\ UNCHANGED <<fixed, config, persistent, clock, run, opts, st, ti, locals, historyF>>

\* main.py 54-64: main returns before the loop when there is no target
\* (main.py 54) or on a dry run (main.py 62).
ReturnsBeforeLoop_NoTargetOnly(t, o) == Len(t) = 0
ReturnsBeforeLoop(t, o) == Len(t) = 0 \/ o.dry_run

\* main.py 54-64: nothing to do, or the list of the targets; a dry run ends
\* here.
Announce ==
    /\ pc = "announce"
    /\ IF ReturnsBeforeLoop(targets, opts)
       THEN Exit(0)
       ELSE pc' = "loop" /\ UNCHANGED exitCode
    /\ UNCHANGED <<fixed, config, persistent, clock, run, opts, st, targets, ti, locals, historyF>>

\* main.py 67-70: the loop over the targets, and the end of main.
LoopNext ==
    /\ pc = "loop"
    /\ IF ti <= Len(targets)
       THEN /\ pc' = "download"
            /\ audio_paths' = <<>>
            /\ UNCHANGED exitCode
       ELSE /\ Exit(0)
            /\ UNCHANGED audio_paths
    /\ UNCHANGED <<fixed, config, persistent, clock, run, opts, st, targets, ti, attempt,
                   rawSize, appendsLeft, notion_url, failed, historyF>>

\* The try block of _process_episode: a stage that raises skips the rest of
\* the block; except Exception logs; the finally clause runs in both cases.
Try_Swallow(ok, next) == next
Try(ok, next) == IF ok THEN next ELSE "finally"

\* What follows the finally clause: the exception was caught, the loop of main
\* goes on.
AfterFinally_Reraise(stage) == IF stage = "none" THEN "loop" ELSE "propagate"
AfterFinally(stage) == "loop"

\* audio.py 15-41, one attempt of download_audio: the destination is unlinked,
\* then the transfer succeeds, or fails before anything is written
\* (ConnectionError), or fails after part of the file is written
\* (ChunkedEncodingError), or fails with an error the retry loop does not
\* catch (HTTPError from raise_for_status).  The third transient failure is
\* raised to the caller.
DownloadOutcomes == {"ok", "connection_error", "chunked_encoding_error", "http_error"}

\* audio.py 35: the errors the retry loop catches.
Transient(outcome) == outcome \in {"connection_error", "chunked_encoding_error"}

\* audio.py 35-37: a failed attempt is raised to the caller when the error is
\* not one the loop catches, or when it was the last attempt.
GivesUp_OneLater(outcome, a) ==
    outcome # "ok" /\ (~Transient(outcome) \/ a = DOWNLOAD_RETRIES + 1)
GivesUp(outcome, a) ==
    outcome # "ok" /\ (~Transient(outcome) \/ a = DOWNLOAD_RETRIES)
DownloadAttempt ==
    /\ pc = "download"
    /\ calls' = calls \cup {"download"}
    /\ \E outcome \in DownloadOutcomes :
         LET dest == RawFile(Current.number)
             unlinked == disk \ {dest}
             raised == GivesUp(outcome, attempt)
         IN /\ disk' = IF outcome \in {"ok", "chunked_encoding_error"}
                       THEN unlinked \cup {dest} ELSE unlinked
            /\ IF outcome = "ok"
               THEN /\ pc' = "split"
                    /\ rawSize' \in {"small", "large"}
                    /\ attempt' = 1
                    /\ UNCHANGED <<failed, failures>>
               ELSE IF raised
               THEN /\ pc' = Try(FALSE, "split")
                    /\ Raise(IF Transient(outcome) THEN "download" ELSE "download_http")
                    /\ attempt' = 1
                    /\ UNCHANGED rawSize
               ELSE /\ attempt' = attempt + 1
                    /\ UNCHANGED <<pc, rawSize, failed, failures>>
    /\ UNCHANGED <<fixed, config, ledgerFile, pages, clock, run, exitCode, opts, st, targets,
                   ti, audio_paths, appendsLeft, notion_url, published, firstEntry,
                   outcomes, prev, fileAtStart>>

\* The number of 10-minute chunks of an oversized file: one (at most 10
\* minutes of audio) or more.
ChunkCounts == {1, 2}

\* audio.py 44-72, split_audio_if_needed: a file within the ceiling is returned
\* as it is; a larger one is exported as k chunks and then unlinked.  The split
\* can raise before any chunk is written (pydub missing, decoding fails) or
\* after j < k chunks are written.
SplitAudio ==
    /\ pc = "split"
    /\ LET n == Current.number
       IN IF rawSize = "small"
          THEN /\ audio_paths' = <<RawFile(n)>>
               /\ pc' = Try(TRUE, "transcribe")
               /\ UNCHANGED <<disk, failed, failures>>
          ELSE \E k \in ChunkCounts : \E j \in 0..k :
                 LET written == {ChunkFile(n, i) : i \in 0..(j - 1)}
                 IN IF j = k
                    THEN /\ disk' = (disk \cup written) \ {RawFile(n)}
                         /\ audio_paths' = [i \in 1..k |-> ChunkFile(n, i - 1)]
                         /\ pc' = Try(TRUE, "transcribe")
                         /\ UNCHANGED <<failed, failures>>
                    ELSE /\ disk' = disk \cup written
                         /\ pc' = Try(FALSE, "transcribe")
                         /\ Raise("split")
                         /\ UNCHANGED audio_paths
    /\ rawSize' = "small"
    /\ UNCHANGED <<fixed, config, ledgerFile, pages, clock, run, exitCode, opts, st, targets,
                   ti, attempt, appendsLeft, notion_url, history>>

\* main.py 83 and transcriber.py: every chunk is sent in order; any call can
\* raise.
Transcribe ==
    /\ pc = "transcribe"
    /\ calls' = calls \cup {"transcribe"}
    /\ \E ok \in BOOLEAN :
         /\ pc' = Try(ok, "extract")
         /\ IF ok THEN UNCHANGED <<failed, failures>> ELSE Raise("transcription")
    /\ UNCHANGED <<fixed, config, persistent, clock, run, exitCode, opts, st, targets, ti,
                   audio_paths, attempt, rawSize, appendsLeft, notion_url, published,
                   firstEntry, outcomes, prev, fileAtStart>>

\* main.py 87-92 and extractor.py: one request; it can raise.
Extract ==
    /\ pc = "extract"
    /\ calls' = calls \cup {"extract"}
    /\ \E ok \in BOOLEAN :
         /\ pc' = Try(ok, "publish")
         /\ IF ok THEN UNCHANGED <<failed, failures>> ELSE Raise("extraction")
    /\ UNCHANGED <<fixed, config, persistent, clock, run, exitCode, opts, st, targets, ti,
                   audio_paths, attempt, rawSize, appendsLeft, notion_url, published,
                   firstEntry, outcomes, prev, fileAtStart>>

\* A fresh page id of the destination.
NewPageId == Cardinality(pages) + 1

\* create_episode_page has returned the URL of the page.
Returned(n, url) ==
    /\ published' = published \cup {n}
    /\ notion_url' = url

\* notion_writer.py 56-65: the schema update (its failure is swallowed), then
\* pages.create with the first batch.  When it succeeds the page exists at the
\* destination; with at most 100 blocks the function returns its URL.
PublishCreate ==
    /\ pc = "publish"
    /\ calls' = calls \cup {"publish"}
    /\ \E ok \in BOOLEAN : \E nBlocks \in BlockCounts :
         IF ok
         THEN /\ pages' = pages \cup {[id |-> NewPageId, episode |-> Current.number,
                                       database |-> Val(config).notion_database_id]}
              /\ appendsLeft' = AppendCalls(nBlocks)
              /\ IF AppendCalls(nBlocks) = 0
                 THEN /\ Returned(Current.number, NewPageId)
                      /\ pc' = Try(TRUE, "mark")
                 ELSE /\ notion_url' = NewPageId
                      /\ pc' = "append"
                      /\ UNCHANGED published
              /\ UNCHANGED <<failed, failures>>
         ELSE /\ pc' = Try(FALSE, "mark")
              /\ Raise("publication")
              /\ UNCHANGED <<pages, appendsLeft, notion_url, published>>
    /\ UNCHANGED <<fixed, config, ledgerFile, disk, clock, run, exitCode, opts, st, targets,
                   ti, audio_paths, attempt, rawSize, firstEntry, outcomes, prev,
                   fileAtStart>>

\* notion_writer.py 67-71: one blocks.children.append call of the loop; after
\* the last one the function returns the URL.
PublishAppend ==
    /\ pc = "append"
    /\ \E ok \in BOOLEAN :
         IF ok
         THEN /\ appendsLeft' = appendsLeft - 1
              /\ IF appendsLeft = 1
                 THEN /\ Returned(Current.number, notion_url)
                      /\ pc' = Try(TRUE, "mark")
                 ELSE UNCHANGED <<pc, published, notion_url>>
              /\ UNCHANGED <<failed, failures>>
         ELSE /\ pc' = Try(FALSE, "mark")
              /\ Raise("publication")
              /\ appendsLeft' = 0
              /\ UNCHANGED <<published, notion_url>>
    /\ UNCHANGED <<fixed, config, persistent, clock, run, exitCode, opts, st, targets, ti,
                   audio_paths, attempt, rawSize, firstEntry, calls, outcomes, prev,
                   fileAtStart>>

\* state.py 29-32, _save: open(.., "w") can raise (the file is untouched), and
\* the dump can raise after the file was truncated.
SaveOutcomes == {"ok", "open_error", "write_error"}
SaveResult(f, s, outcome) ==
    IF outcome = "ok" THEN JsonDump(s)
    ELSE IF outcome = "open_error" THEN f
    ELSE CutFile

\* main.py 102 and state.py 22-28: mark_processed sets the entry, then saves.
MarkProcessed ==
    /\ pc = "mark"
    /\ LET n == Current.number
           s == mark_processed_state(st, n, notion_url, Current.title, clock)
       IN /\ st' = s
          /\ clock' = clock + 1
          /\ \E outcome \in SaveOutcomes :
               /\ ledgerFile' = SaveResult(ledgerFile, s, outcome)
               /\ firstEntry' = IF outcome # "ok" \/ HasKey(firstEntry, Str(n))
                                THEN firstEntry
                                ELSE DictSet(firstEntry, Str(n), DictGet(s, Str(n)))
               /\ IF outcome = "ok" THEN UNCHANGED <<failed, failures>> ELSE Raise("ledger")
    /\ pc' = "finally"
    /\ UNCHANGED <<fixed, config, disk, pages, run, exitCode, opts, targets, ti, audio_paths,
                   attempt, rawSize, appendsLeft, notion_url, published, calls,
                   outcomes, prev, fileAtStart>>

\* main.py 111-114: the finally clause, and the return to the loop of main.
Finally ==
    /\ pc = "finally"
    /\ disk' = IF Len(audio_paths) > 0 THEN cleanup_audio(disk, audio_paths) ELSE disk
    /\ outcomes' = Append(outcomes, [ep |-> Current.number, ok |-> failed = "none"])
    /\ ti' = ti + 1
    /\ pc' = AfterFinally(failed)
    /\ audio_paths' = <<>>
    /\ notion_url' = 0
    /\ failed' = "none"
    /\ UNCHANGED <<fixed, config, ledgerFile, pages, clock, run, exitCode, opts, st, targets,
                   attempt, rawSize, appendsLeft, published, firstEntry, calls, prev,
                   fileAtStart, failures>>

Next ==
    \/ StartRun
    \/ LoadConfig
    \/ NewStateManager
    \/ Select
    \/ Announce
    \/ LoopNext
    \/ DownloadAttempt
    \/ SplitAudio
    \/ Transcribe
    \/ Extract
    \/ PublishCreate
    \/ PublishAppend
    \/ MarkProcessed
    \/ Finally

Spec == Init /\ [][Next]_vars

\* ---------------------------------------- all-unprocessed runs, repeated
\* python main.py without --episode, --from, --limit and --dry-run, started
\* again whenever the process before it has ended, without end.  run counts up
\* to MaxRuns and then stands for MaxRuns or more.  A process that was started
\* takes its next step, and a next process is started: weak fairness of the
\* step.  A stage fails MaxFailures times at most, so that from some point on
\* every stage that is reached succeeds.
BatchAllCommandLines(l) == {o \in CommandLines(l) : IsBatchAll(o)}

RunAgain ==
    /\ run' = Min(run + 1, MaxRuns)
    /\ opts' \in BatchAllCommandLines(loader)
    /\ NewProcess

LiveNext ==
    \/ RunAgain
    \/ LoadConfig
    \/ NewStateManager
    \/ Select
    \/ Announce
    \/ LoopNext
    \/ DownloadAttempt
    \/ SplitAudio
    \/ Transcribe
    \/ Extract
    \/ PublishCreate
    \/ PublishAppend
    \/ MarkProcessed
    \/ Finally

SpecLive == Init /\ [][LiveNext]_vars /\ WF_vars(LiveNext)

\* ------------------------------------------------- the ledger on its own
\* A StateManager driven directly: constructed from the file, mark_processed
\* called with any number, the process killed at any point (between the
\* assignment and the open, and between the open, which truncates the file,
\* and the end of the dump) and a new process started.
LedgerUrls == {1, 2}

orchestrator ==
    <<loader, environ, feed, disk, pages, run, exitCode, opts, targets, ti, locals,
      config, published, firstEntry, calls, outcomes, prev, fileAtStart, failures,
      units>>

LedgerInit ==
    /\ loader = "stub"
    /\ environ = Required
    /\ feed = FeedOf(NumEpisodes)
    /\ ledgerFile = NoFile
    /\ disk = {}
    /\ pages = {}
    /\ clock = 0
    /\ run = 0
    /\ pc = "dead"
    /\ exitCode = 0
    /\ opts = NoOpts
    /\ st = <<>>
    /\ targets = <<>>
    /\ ti = 1
    /\ audio_paths = <<>>
    /\ attempt = 1
    /\ rawSize = "small"
    /\ appendsLeft = 0
    /\ notion_url = 0
    /\ failed = "none"
    /\ config = None
    /\ published = {}
    /\ firstEntry = <<>>
    /\ calls = {}
    /\ outcomes = <<>>
    /\ prev = NoPrev
    /\ fileAtStart = NoFile
    /\ failures = 0
    /\ called = {}
    /\ marked = {}
    /\ markArg = 0
    /\ marks = 0
    /\ NoUnits

\* state.py 9-17: StateManager() in a new process.  On a cut file json.load
\* raises and no StateManager comes to exist.
Construct ==
    /\ pc = "dead"
    /\ ~LoadRaises(ledgerFile)
    /\ st' = Load(ledgerFile)
    /\ pc' = "ready"
    /\ UNCHANGED <<orchestrator, ledgerFile, clock, called, marked, markArg, marks>>

\* state.py 22-27: mark_processed is called and assigns the entry.
MarkAssign ==
    /\ pc = "ready"
    /\ clock < MaxMarks
    /\ \E n \in 1..NumEpisodes : \E url \in LedgerUrls :
         /\ st' = mark_processed_state(st, n, url, TitleOf(n), clock)
         /\ markArg' = n
         /\ called' = called \cup {n}
    /\ clock' = clock + 1
    /\ pc' = "assigned"
    /\ UNCHANGED <<orchestrator, ledgerFile, marked, marks>>

\* state.py 30: open(self.state_file, "w") truncates the file.
SaveOpen ==
    /\ pc = "assigned"
    /\ ledgerFile' = CutFile
    /\ pc' = "opened"
    /\ UNCHANGED <<orchestrator, st, clock, called, marked, markArg, marks>>

\* state.py 31-32: json.dump, the file is closed, mark_processed returns.
SaveDump ==
    /\ pc = "opened"
    /\ ledgerFile' = JsonDump(st)
    /\ marked' = marked \cup {markArg}
    /\ marks' = marks + 1
    /\ pc' = "ready"
    /\ UNCHANGED <<orchestrator, st, clock, called, markArg>>

\* The process is killed; its memory is lost, the file stays as it is.
Crash ==
    /\ pc \in {"ready", "assigned", "opened"}
    /\ st' = <<>>
    /\ pc' = "dead"
    /\ UNCHANGED <<orchestrator, ledgerFile, clock, called, marked, markArg, marks>>

LedgerNext ==
    \/ Construct
    \/ MarkAssign
    \/ SaveOpen
    \/ SaveDump
    \/ Crash

SpecLedger == LedgerInit /\ [][LedgerNext]_vars

\* ------------------------------------------- the parts driven on their own
\* No process of the orchestrator is running and none has run.
Quiet ==
    /\ loader = "stub"
    /\ environ = Required
    /\ feed = FeedOf(NumEpisodes)
    /\ ledgerFile = NoFile
    /\ pages = {}
    /\ clock = 0
    /\ run = 0
    /\ exitCode = 0
    /\ opts = NoOpts
    /\ st = <<>>
    /\ targets = <<>>
    /\ ti = 1
    /\ audio_paths = <<>>
    /\ attempt = 1
    /\ rawSize = "small"
    /\ appendsLeft = 0
    /\ notion_url = 0
    /\ failed = "none"
    /\ config = None
    /\ published = {}
    /\ firstEntry = <<>>
    /\ calls = {}
    /\ outcomes = <<>>
    /\ prev = NoPrev
    /\ fileAtStart = NoFile
    /\ failures = 0
    /\ called = {}
    /\ marked = {}
    /\ markArg = 0
    /\ marks = 0

\* What a part driven on its own leaves alone.
quiet ==
    <<loader, environ, feed, ledgerFile, pages, clock, run, exitCode, opts, st,
      targets, ti, attempt, rawSize, appendsLeft, notion_url, failed, config,
      published, firstEntry, calls, outcomes, prev, fileAtStart, failures, called,
      marked, markArg, marks>>

\* ------------------------------------------------- the episode directory
MaxEntries == 3       \* entries of the feed, at most

\* published_parsed of an entry: a date, or None when the entry has none.
Dates == {1, 2}
\* datetime.now() at the parse: later than the date of every entry.
Now == 3

\* type.startswith("audio/"), for the declared types "audio/mpeg", "video/mp4"
\* and "" (none declared).
IsAudioType(t) == t \in {"audio/mpeg"}

Enclosure(type, href, url) == [type |-> type, href |-> href, url |-> url]
Link(rel, href) == [rel |-> rel, href |-> href]

\* The enclosures and links of an entry (feedparser lists every enclosure
\* among the links as well, with the relation "enclosure"): an audio enclosure
\* with an href; one with a url only; one with no address, followed by a
\* second enclosure that has one; an enclosure that is not audio; no enclosure.
Media ==
    [audio_href |->
        [enclosures |-> <<Enclosure("audio/mpeg", Some("enc_href"), None)>>,
         links |-> <<Link("alternate", Some("page")), Link("enclosure", Some("enc_href"))>>],
     audio_url |->
        [enclosures |-> <<Enclosure("audio/mpeg", None, Some("enc_url"))>>,
         links |-> <<Link("alternate", Some("page")), Link("enclosure", None)>>],
     audio_bare |->
        [enclosures |-> <<Enclosure("audio/mpeg", None, None),
                          Enclosure("", Some("link_href"), None)>>,
         links |-> <<Link("alternate", Some("page")), Link("enclosure", None),
                     Link("enclosure", Some("link_href"))>>],
     video |->
        [enclosures |-> <<Enclosure("video/mp4", Some("video_href"), None)>>,
         links |-> <<Link("alternate", Some("page")), Link("enclosure", Some("video_href"))>>],
     none |->
        [enclosures |-> <<>>,
         links |-> <<Link("alternate", Some("page"))>>]]

\* The entries a feed can gain: every date with an audio enclosure or without
\* audio, and the other media on one date.
EntryKinds ==
    [published_parsed : {None} \cup {Some(d) : d \in Dates},
     media : {"audio_href", "none"}]
    \cup [published_parsed : {Some(1)}, media : {"audio_url", "audio_bare", "video"}]

Entry_(id, kind) ==
    [id |-> id, published_parsed |-> kind.published_parsed,
     enclosures |-> Media[kind.media].enclosures, links |-> Media[kind.media].links]

Ids(es) == {es[i].id : i \in 1..Len(es)}

\* The least index of a set of indices.
First(S) == CHOOSE i \in S : \A j \in S : i <= j

\* feed.py 46-55, _extract_audio_url: the first enclosure with an audio type
\* decides (href or url, None when it has neither); without one, the first
\* enclosure link with an href.
extract_audio_url(entry) ==
    LET audio == {i \in 1..Len(entry.enclosures) : IsAudioType(entry.enclosures[i].type)}
        linked == {i \in 1..Len(entry.links) :
                     entry.links[i].rel = "enclosure" /\ ~IsNone(entry.links[i].href)}
    IN IF audio # {}
       THEN LET enc == entry.enclosures[First(audio)]
            IN IF ~IsNone(enc.href) THEN enc.href ELSE enc.url
       ELSE IF linked # {} THEN entry.links[First(linked)].href
       ELSE None

\* feed.py 30: the sort key, published_parsed or (0,).
SortKey(entry) ==
    IF IsNone(entry.published_parsed) THEN 0 ELSE Val(entry.published_parsed)

\* list.sort(key=...): stable, ascending.
RECURSIVE SortByKey(_)
SortByKey(s) ==
    IF Len(s) = 0 THEN <<>>
    ELSE LET rest == SortByKey(SubSeq(s, 1, Len(s) - 1))
             x == s[Len(s)]
             k == Cardinality({i \in 1..Len(rest) : SortKey(rest[i]) <= SortKey(x)})
         IN SubSeq(rest, 1, k) \o <<x>> \o SubSeq(rest, k + 1, Len(rest))

\* feed.py 58-61, _parse_date.
parse_date(published_parsed) ==
    IF IsNone(published_parsed) THEN Now ELSE Val(published_parsed)

\* feed.py 23-43, parse_feed: the entries with an audio url, sorted, numbered
\* from 1.
parse_feed(es) ==
    LET entries_with_audio ==
            SortByKey(SelectSeq(es, LAMBDA e : ~IsNone(extract_audio_url(e))))
    IN [i \in 1..Len(entries_with_audio) |->
           [number |-> i,
            entry |-> entries_with_audio[i].id,
            published |-> parse_date(entries_with_audio[i].published_parsed),
            audio_url |-> Val(extract_audio_url(entries_with_audio[i]))]]

FeedInit ==
    /\ Quiet
    /\ pc = "feed"
    /\ disk = {}
    /\ entries = <<>>
    /\ episodes = <<>>
    /\ seen = NoParse
    /\ NoSplitUnit /\ NoPublishUnit /\ NoExtractUnit /\ NoDownloadUnit

other_than_feed ==
    <<quiet, disk, audio_paths, raw_path, fileBytes, duration, segments, all_blocks,
      requests, response, insights, destBytes, removed>>

\* The feed gains an entry, at the top of the document or at its end.
FeedGains ==
    /\ pc \in {"feed", "parsed"}
    /\ Len(entries) < MaxEntries
    /\ \E kind \in EntryKinds : \E top \in BOOLEAN :
         LET e == Entry_(Len(entries) + 1, kind)
         IN entries' = IF top THEN <<e>> \o entries ELSE Append(entries, e)
    /\ pc' = "feed"
    /\ UNCHANGED <<other_than_feed, episodes, seen>>

\* main.py 35: episodes = parse_feed(config.rss_feed_url), in a run.
ParseFeed ==
    /\ pc \in {"feed", "parsed"}
    /\ episodes' = parse_feed(entries)
    /\ seen' = [ids |-> seen.latest, episodes |-> episodes, latest |-> Ids(entries)]
    /\ pc' = "parsed"
    /\ UNCHANGED <<other_than_feed, entries>>

FeedNext ==
    \/ FeedGains
    \/ ParseFeed

SpecFeed == FeedInit /\ [][FeedNext]_vars

\* ------------------------------------------------ split_audio_if_needed
\* st_size of the downloaded file, and len(audio) in milliseconds (0 when the
\* decoder finds no audio in it).
Sizes ==
    {0, WHISPER_MAX_BYTES - 1, WHISPER_MAX_BYTES, WHISPER_MAX_BYTES + 1,
     2 * WHISPER_MAX_BYTES}
Durations ==
    {0, 1, chunk_ms - 1, chunk_ms, chunk_ms + 1, 2 * chunk_ms, 2 * chunk_ms + 1,
     6 * chunk_ms}

\* audio.py 49: st_size <= WHISPER_MAX_BYTES.
WithinCeiling_Below(size) == size < WHISPER_MAX_BYTES
WithinCeiling(size) == size <= WHISPER_MAX_BYTES

\* audio.py 63: range(0, len(audio), chunk_ms).
ChunkStarts_Whole(len) == [i \in 1..(len \div chunk_ms) |-> (i - 1) * chunk_ms]
ChunkStarts(len) ==
    [i \in 1..((len + chunk_ms - 1) \div chunk_ms) |-> (i - 1) * chunk_ms]

\* audio.py 64: audio[start:start + chunk_ms], the slice ends with the audio.
Segment(start, len) == [from |-> start, to |-> Min(start + chunk_ms, len)]

SplitInit ==
    /\ Quiet
    /\ pc = "split"
    /\ \E n \in 1..NumEpisodes :
         /\ raw_path = RawFile(n)
         /\ disk = {RawFile(n)}
    /\ fileBytes \in Sizes
    /\ duration \in Durations
    /\ segments = <<>>
    /\ NoFeedUnit /\ NoPublishUnit /\ NoExtractUnit /\ NoDownloadUnit

other_than_split ==
    <<quiet, entries, episodes, seen, all_blocks, requests, response, insights,
      destBytes, removed>>

\* audio.py 44-72, split_audio_if_needed(raw_path): a file within the ceiling
\* is returned as it is.  A larger one is decoded (pydub can be missing, the
\* decoder can fail), each slice is exported as a chunk file (an export can
\* fail after j chunks were written), and after the last export the original
\* is unlinked and the chunk paths are returned.
SplitFile ==
    /\ pc = "split"
    /\ IF WithinCeiling(fileBytes)
       THEN /\ audio_paths' = <<raw_path>>
            /\ pc' = "split_returned"
            /\ UNCHANGED <<disk, segments>>
       ELSE \E decoded \in BOOLEAN :
              IF ~decoded
              THEN /\ pc' = "split_raised"
                   /\ UNCHANGED <<disk, segments, audio_paths>>
              ELSE LET starts == ChunkStarts(duration)
                       n == raw_path[1]
                   IN \E j \in 0..Len(starts) :
                        LET chunks == [i \in 1..j |-> ChunkFile(n, i - 1)]
                        IN /\ segments' = [i \in 1..j |-> Segment(starts[i], duration)]
                           /\ IF j = Len(starts)
                              THEN /\ disk' = (disk \cup Range(chunks)) \ {raw_path}
                                   /\ audio_paths' = chunks
                                   /\ pc' = "split_returned"
                              ELSE /\ disk' = disk \cup Range(chunks)
                                   /\ pc' = "split_raised"
                                   /\ UNCHANGED audio_paths
    /\ UNCHANGED <<other_than_split, raw_path, fileBytes, duration>>

SplitNext == SplitFile

SpecSplit == SplitInit /\ [][SplitNext]_vars

\* ---------------------------------------------------- create_episode_page
MaxBlocks == 301      \* rendered blocks of a page, at most

\* _build_blocks renders at least 19 blocks (every list empty, no recipe).
MinBlocks == 19

\* notion_writer.py 57-58: all_blocks[:100] and all_blocks[100:].
first_batch(blocks) == SubSeq(blocks, 1, Min(NOTION_BLOCK_LIMIT, Len(blocks)))
remaining_From100(blocks) == SubSeq(blocks, NOTION_BLOCK_LIMIT, Len(blocks))
remaining(blocks) == SubSeq(blocks, NOTION_BLOCK_LIMIT + 1, Len(blocks))

\* notion_writer.py 68: remaining[i:i + 100].
batch(rest, i) == SubSeq(rest, i + 1, Min(i + NOTION_BLOCK_LIMIT, Len(rest)))

PublishInit ==
    /\ Quiet
    /\ pc = "publish"
    /\ disk = {}
    /\ all_blocks \in {[i \in 1..n |-> i] : n \in MinBlocks..MaxBlocks}
    /\ requests = <<>>
    /\ NoFeedUnit /\ NoSplitUnit /\ NoExtractUnit /\ NoDownloadUnit

other_than_publish ==
    <<quiet, disk, audio_paths, entries, episodes, seen, raw_path, fileBytes, duration,
      segments, response, insights, destBytes, removed>>

\* notion_writer.py 60-65: notion.pages.create with the first batch; the call
\* can raise.  Without a remainder the function returns the URL.
CreatePage ==
    /\ pc = "publish"
    /\ requests' = <<[call |-> "create", children |-> first_batch(all_blocks)]>>
    /\ \E ok \in BOOLEAN :
         pc' = IF ~ok THEN "page_raised"
               ELSE IF Len(remaining(all_blocks)) = 0 THEN "page_returned"
               ELSE "append"
    /\ UNCHANGED <<other_than_publish, all_blocks>>

\* notion_writer.py 67-71: one turn of the loop over
\* range(0, len(remaining), 100); the call can raise; after the last turn the
\* function returns the URL.
AppendBatch ==
    /\ pc = "append"
    /\ LET rest == remaining(all_blocks)
           i == (Len(requests) - 1) * NOTION_BLOCK_LIMIT
       IN /\ requests' = Append(requests, [call |-> "append", children |-> batch(rest, i)])
          /\ \E ok \in BOOLEAN :
               pc' = IF ~ok THEN "page_raised"
                     ELSE IF i + NOTION_BLOCK_LIMIT >= Len(rest) THEN "page_returned"
                     ELSE "append"
    /\ UNCHANGED <<other_than_publish, all_blocks>>

PublishNext ==
    \/ CreatePage
    \/ AppendBatch

SpecPublish == PublishInit /\ [][PublishNext]_vars

\* ------------------------------------------------------- extract_insights
\* The fields of the tool input (extractor.py 19-77) and of a recipe.
TopFields ==
    {"episode_summary", "brewing_techniques", "recipes", "ingredients_and_products",
     "business_and_marketing", "key_takeaways"}
OptionalRecipeFields ==
    {"style", "grain_bill", "hop_schedule", "yeast", "og", "fg", "process_notes"}

\* A recipe of the response with the given fields: strings, and lists of
\* strings for grain_bill and hop_schedule.
RecipeDict(fields) ==
    [f \in fields |-> IF f \in {"grain_bill", "hop_schedule"} THEN <<"item">> ELSE "text"]

\* The recipes of a response: none, one with every field, one with the name
\* only, one with some fields, one without its name, and two recipes.
RecipeLists ==
    {<<>>,
     <<RecipeDict({"name"} \cup OptionalRecipeFields)>>,
     <<RecipeDict({"name"})>>,
     <<RecipeDict({"name", "style", "grain_bill"})>>,
     <<RecipeDict({"style"})>>,
     <<RecipeDict({"name"}), RecipeDict({"name"} \cup OptionalRecipeFields)>>}

\* tool_use_block.input: any subset of the top-level fields.
Responses ==
    {[f \in present |->
         IF f = "episode_summary" THEN "summary"
         ELSE IF f = "recipes" THEN rs
         ELSE <<"item">>] : present \in SUBSET TopFields, rs \in RecipeLists}

\* dict.get(key, default)
Get(d, key, default) == IF key \in DOMAIN d THEN d[key] ELSE default

\* models.py 7-15, RecipeEntry(**r): name is required (ValidationError
\* without it), every other field is Optional with the default None.
RecipeEntryRaises(r) == "name" \notin DOMAIN r
RecipeEntry_EmptyDefault(r) ==
    [f \in {"name"} \cup OptionalRecipeFields |->
        IF f = "name" THEN r[f]
        ELSE IF f \in DOMAIN r THEN Some(r[f]) ELSE Some("")]
RecipeEntry(r) ==
    [f \in {"name"} \cup OptionalRecipeFields |->
        IF f = "name" THEN r[f]
        ELSE IF f \in DOMAIN r THEN Some(r[f]) ELSE None]

\* extractor.py 110-118: the BrewingInsights built from the tool input.
BrewingInsights(data) ==
    [episode_summary |-> Get(data, "episode_summary", ""),
     brewing_techniques |-> Get(data, "brewing_techniques", <<>>),
     recipes |-> [i \in 1..Len(Get(data, "recipes", <<>>)) |->
                     RecipeEntry(Get(data, "recipes", <<>>)[i])],
     ingredients_and_products |-> Get(data, "ingredients_and_products", <<>>),
     business_and_marketing |-> Get(data, "business_and_marketing", <<>>),
     key_takeaways |-> Get(data, "key_takeaways", <<>>)]

ExtractInit ==
    /\ Quiet
    /\ pc = "extract"
    /\ disk = {}
    /\ response \in Responses
    /\ insights = None
    /\ NoFeedUnit /\ NoSplitUnit /\ NoPublishUnit /\ NoDownloadUnit

other_than_extract ==
    <<quiet, disk, audio_paths, entries, episodes, seen, raw_path, fileBytes, duration,
      segments, all_blocks, requests, destBytes, removed>>

\* extractor.py 107-118 in the try block of _process_episode: the insights
\* are built from the tool input and the pipeline goes on to publication, or
\* RecipeEntry raises and the invocation fails.
BuildInsights ==
    /\ pc = "extract"
    /\ LET rs == Get(response, "recipes", <<>>)
           raises == \E i \in 1..Len(rs) : RecipeEntryRaises(rs[i])
       IN /\ pc' = Try(~raises, "publish")
          /\ insights' = IF raises THEN None ELSE Some(BrewingInsights(response))
    /\ UNCHANGED <<other_than_extract, response>>

ExtractNext == BuildInsights

SpecExtract == ExtractInit /\ [][ExtractNext]_vars

\* -------------------------------------------------------- download_audio
\* What a file of the temp directory holds: the bytes of one transfer, all of
\* them or only the first part.  Attempt 0 is a transfer of an earlier process.
Bytes(a, all) == [attempt |-> a, complete |-> all]

\* What an earlier process can have left at dest: nothing, the partial file of
\* a download that gave up, or a whole file that was never cleaned up.
Leftovers == {<<>>, <<Bytes(0, FALSE)>>, <<Bytes(0, TRUE)>>}

\* audio.py 26: dest.unlink(missing_ok=True).
Unlinked_Kept(files, dest) == files
Unlinked(files, dest) == files \ {dest}

\* audio.py 29: open(dest, "wb") creates the file, or truncates the one there.
Opened(old) == <<>>

DownloadInit ==
    /\ Quiet
    /\ pc = "dl_unlink"
    /\ audio_paths = <<>>
    /\ \E n \in 1..NumEpisodes : raw_path = RawFile(n)
    /\ destBytes \in Leftovers
    /\ disk = IF destBytes = <<>> THEN {} ELSE {raw_path}
    /\ removed = <<>>
    /\ fileBytes = 0 /\ duration = 0 /\ segments = <<>>
    /\ NoFeedUnit /\ NoPublishUnit /\ NoExtractUnit

other_than_download ==
    <<loader, environ, feed, ledgerFile, pages, clock, run, exitCode, opts, st,
      targets, ti, rawSize, appendsLeft, notion_url, failed, config, published,
      firstEntry, calls, outcomes, prev, fileAtStart, failures, called, marked,
      markArg, marks, audio_paths, entries, episodes, seen, raw_path, fileBytes,
      duration, segments, all_blocks, requests, response, insights>>

\* audio.py 35-39: the except clause of an attempt that failed.
Failed(outcome) ==
    IF GivesUp(outcome, attempt)
    THEN pc' = "dl_raised" /\ UNCHANGED attempt
    ELSE pc' = "dl_unlink" /\ attempt' = attempt + 1

\* audio.py 25-26: the attempt begins, dest is unlinked if it is there.
Unlink ==
    /\ pc = "dl_unlink"
    /\ disk' = Unlinked(disk, raw_path)
    /\ removed' = IF raw_path \in disk /\ raw_path \notin disk'
                  THEN Append(removed, destBytes) ELSE removed
    /\ destBytes' = IF raw_path \in disk' THEN destBytes ELSE <<>>
    /\ pc' = "dl_request"
    /\ UNCHANGED <<other_than_download, attempt>>

\* audio.py 27-28: requests.get and raise_for_status; nothing is written yet.
Request ==
    /\ pc = "dl_request"
    /\ \E outcome \in {"ok", "connection_error", "http_error"} :
         IF outcome = "ok"
         THEN pc' = "dl_receive" /\ UNCHANGED attempt
         ELSE Failed(outcome)
    /\ UNCHANGED <<other_than_download, disk, destBytes, removed>>

\* audio.py 29-34: dest is opened for writing and the body is streamed into
\* it; the stream can break after part of it (ChunkedEncodingError), else dest
\* is returned.
Receive ==
    /\ pc = "dl_receive"
    /\ disk' = disk \cup {raw_path}
    /\ \E outcome \in {"ok", "chunked_encoding_error"} :
         /\ destBytes' = Opened(IF raw_path \in disk THEN destBytes ELSE <<>>)
                           \o <<Bytes(attempt, outcome = "ok")>>
         /\ IF outcome = "ok"
            THEN pc' = "dl_returned" /\ UNCHANGED attempt
            ELSE Failed(outcome)
    /\ UNCHANGED <<other_than_download, removed>>

DownloadNext ==
    \/ Unlink
    \/ Request
    \/ Receive

SpecDownload == DownloadInit /\ [][DownloadNext]_vars

\* ================================================================== claims
InPipeline ==
    pc \in {"download", "split", "transcribe", "extract", "publish", "append",
            "mark", "finally"}

\* An invocation of _process_episode has just returned.
JustReturned == pc = "loop" /\ Len(outcomes) >= 1
LastOutcome == outcomes[Len(outcomes)]

\* The ledger the next process would load.
Loadable == ~LoadRaises(ledgerFile)
Fresh == Load(ledgerFile)

C2_NoFileAfterInvocation ==
    JustReturned => FilesOf(LastOutcome.ep, disk) = {}

\* C3 as stated: a run in all-unprocessed mode that follows a run in
\* all-unprocessed mode selects no target, invokes no collaborator and leaves
\* the ledger file as it found it.
SecondBatchRun == run >= 2 /\ prev.batchAll /\ IsBatchAll(opts)
ProcessesNothing == targets = <<>> /\ calls = {} /\ ledgerFile = fileAtStart
C4_FailureDoesNotAbort ==
    /\ (Len(outcomes) >= 1 /\ Len(outcomes) < Len(targets)) =>
         /\ pc = "loop" \/ InPipeline
         /\ ti = Len(outcomes) + 1
    /\ (pc = "exited" /\ Len(outcomes) >= 1) =>
         /\ exitCode = 0
         /\ Len(outcomes) = Len(targets)
         /\ \A i \in 1..Len(targets) : outcomes[i].ep = targets[i].number

\* C4 witness: a run has ended in which the first invocation failed and the
\* second target was processed all the same.
C4_Witness ==
    /\ pc = "exited"
    /\ Len(targets) = 2 /\ Len(outcomes) = 2
    /\ ~outcomes[1].ok /\ outcomes[2].ok

\* C5 as stated: when an invocation has failed (it is at its finally clause),
\* nothing it made is left: no page at the destination and no ledger entry.
C5_FailureLeavesNothing ==
    (pc = "finally" /\ failed # "none") =>
        /\ \A p \in pages : p.id # notion_url
        /\ ~(is_processed(st, Current.number)
             /\ DictGet(st, Str(Current.number)).notion_url = notion_url)

\* C7 as stated: every entry of the ledger is the entry its key was created
\* with, and no invocation starts for a number that is in the ledger.
C7_EntriesNeverChange ==
    /\ \A i \in 1..Len(st) :
         HasKey(firstEntry, st[i].key) => st[i].val = DictGet(firstEntry, st[i].key)
    /\ pc = "download" => ~is_processed(st, Current.number)

\* C9: the candidates of batch mode, and the position of one among them.
Candidates(o) ==
    {n \in 1..Len(feed) :
        /\ ~is_processed(st, n)
        /\ IsNone(o.from_episode) \/ n >= Val(o.from_episode)}
Rank(n, c) == Cardinality({m \in c : m < n})
Numbers(t) == {t[i].number : i \in 1..Len(t)}
Ascending(t) == \A i, j \in 1..Len(t) : i < j => t[i].number < t[j].number
BatchSelected == pc = "announce" /\ IsNone(opts.episode)

C10_ExitCode ==
    pc = "exited" => (exitCode # 0 <=> Missing(environ) # {})

\* C6 as stated: whenever the process is dead (it ended or was killed), a
\* fresh load reports every number whose mark_processed has returned as
\* processed, and no number mark_processed was never called with.
FreshReports(n) == Loadable /\ is_processed(Fresh, n)
C6_DurableOnceReturned ==
    pc = "dead" =>
        /\ \A n \in marked : FreshReports(n)
        /\ \A n \in (1..NumEpisodes) \ called : ~FreshReports(n)

\* C8: whenever no mark_processed is in progress and the file can be loaded, a
\* StateManager loaded from it reports exactly the marked numbers as processed
\* and counts each once.
C8_RoundTrip ==
    (pc \in {"dead", "ready"} /\ Loadable) =>
        /\ \A n \in 1..NumEpisodes : is_processed(Fresh, n) <=> n \in marked
        /\ get_processed_count(Fresh) = Cardinality(marked)

\* C8 witness: three calls have returned for two distinct numbers, and a new
\* process has loaded the file.
C8_Witness ==
    /\ pc = "ready"
    /\ marks = 3 /\ Cardinality(marked) = 2
    /\ st = Fresh
    /\ get_processed_count(st) = 2

\* C11: while a dry run is running, no step writes a file of the temp
\* directory, the ledger file or a page, no collaborator (download,
\* transcription, extraction, publication) has been invoked, and the ledger in
\* memory stays as it was loaded.
C11_DryRunOnlyLists ==
    [][(opts.dry_run /\ pc \notin {"idle", "exited"}) =>
          /\ UNCHANGED <<disk, ledgerFile, pages>>
          /\ calls' = {}
          /\ pc # "state" => st' = st]_vars

\* C11 witness: a dry run that follows a run which processed episode 1 has
\* listed the other episode and ended; the ledger still has one entry.
C11_Witness ==
    /\ pc = "exited" /\ exitCode = 0
    /\ opts.dry_run
    /\ run = 2
    /\ Numbers(targets) = {2}
    /\ Keys(st) = {Str(1)}
    /\ calls = {}

\* C14: every step of download_audio is attempt 1, 2 or 3, and it either
\* tries again (only after attempt 1 or 2, and nothing is raised), or returns
\* with the file on disk, or raises a transient failure (only at attempt 3), or
\* raises an error that is not a transient network failure.
C14_AtMostThreeAttempts ==
    [][pc = "download" =>
          /\ attempt \in 1..DOWNLOAD_RETRIES
          /\ \/ /\ pc' = "download"
                /\ attempt < DOWNLOAD_RETRIES
                /\ attempt' = attempt + 1
                /\ failed' = "none" /\ failures' = failures
             \/ /\ pc' = "split"
                /\ RawFile(Current.number) \in disk'
                /\ failed' = "none" /\ failures' = failures
             \/ /\ pc' = "finally"
                /\ failed' = "download"
                /\ attempt = DOWNLOAD_RETRIES
             \/ /\ pc' = "finally"
                /\ failed' = "download_http"]_vars

\* C14 witness: two attempts have failed with a transient error, the second
\* one after part of the file was written; the third attempt is due.
C14_Witness ==
    /\ pc = "download"
    /\ attempt = DOWNLOAD_RETRIES
    /\ RawFile(Current.number) \in disk
    /\ failures = 0

\* C20 as stated: with every required variable set and --database supplied,
\* load_config returns a Config; and every page a run creates is in the
\* database --database names, or in the configured one without the option.
Destination(o) ==
    IF IsNone(o.database_id) THEN "env_database" ELSE Val(o.database_id)
C20_DatabaseOverride ==
    /\ (loader = "config" /\ Missing(environ) = {} /\ ~IsNone(opts.database_id)
        /\ pc \notin {"idle", "load_config"}) => ~IsNone(config)
    /\ pc \in {"append", "mark"} =>
          \A p \in pages : p.id = notion_url => p.database = Destination(opts)

\* The episode parse_feed made of an entry, if it made one.
EpisodesOf(e) == {i \in 1..Len(episodes) : episodes[i].entry = e.id}
HasLocator(e) == ~IsNone(extract_audio_url(e))

\* C12 as stated: parse_feed returns one episode for each entry that has an
\* audio locator and none for the others, numbered 1..N, and a higher number
\* always has a later published timestamp.
C12_NumberedByPublishTime ==
    pc = "parsed" =>
        /\ Len(episodes) = Cardinality({i \in 1..Len(entries) : HasLocator(entries[i])})
        /\ \A i \in 1..Len(entries) :
              Cardinality(EpisodesOf(entries[i])) = IF HasLocator(entries[i]) THEN 1 ELSE 0
        /\ \A i \in 1..Len(episodes) : episodes[i].number = i
        /\ \A i, j \in 1..Len(episodes) :
              i < j => episodes[i].published < episodes[j].published

\* C13 as stated: when every entry the feed gained since the parse before is
\* undated or not earlier than any entry that parse saw, every episode of that
\* parse has the same number in the last parse.
GainedSince == {i \in 1..Len(entries) : entries[i].id \notin seen.ids}
SeenBefore == {i \in 1..Len(entries) : entries[i].id \in seen.ids}
NotEarlier(n, o) ==
    \/ IsNone(n.published_parsed)
    \/ IsNone(o.published_parsed)
    \/ Val(n.published_parsed) >= Val(o.published_parsed)
C13_NumbersStable ==
    (/\ pc = "parsed"
     /\ \A i \in GainedSince : \A k \in SeenBefore : NotEarlier(entries[i], entries[k])) =>
        \A k \in 1..Len(seen.episodes) : \E j \in 1..Len(episodes) :
            /\ episodes[j].entry = seen.episodes[k].entry
            /\ episodes[j].number = seen.episodes[k].number

\* C19 as stated: the locator of an entry is the address of its first audio
\* enclosure that gives one, otherwise the href of its first enclosure link
\* that has one; the entry is dropped only when there is neither.
ClaimedLocator(e) ==
    LET usable == {i \in 1..Len(e.enclosures) :
                     /\ IsAudioType(e.enclosures[i].type)
                     /\ ~IsNone(e.enclosures[i].href) \/ ~IsNone(e.enclosures[i].url)}
        linked == {i \in 1..Len(e.links) :
                     e.links[i].rel = "enclosure" /\ ~IsNone(e.links[i].href)}
    IN IF usable # {}
       THEN LET enc == e.enclosures[First(usable)]
            IN IF ~IsNone(enc.href) THEN enc.href ELSE enc.url
       ELSE IF linked # {} THEN e.links[First(linked)].href
       ELSE None
C19_LocatorResolution ==
    pc = "parsed" =>
        \A i \in 1..Len(entries) :
            IF IsNone(ClaimedLocator(entries[i]))
            THEN EpisodesOf(entries[i]) = {}
            ELSE \E k \in EpisodesOf(entries[i]) :
                    episodes[k].audio_url = Val(ClaimedLocator(entries[i]))

\* C15: when split_audio_if_needed returns for a file over the ceiling with
\* D > 0 milliseconds of audio, it returns k = ceil(D / 10 min) chunk paths,
\* chunk i (from 0) holding the audio from i * 10 min to min((i + 1) * 10 min,
\* D), so the chunks are consecutive, cover 0..D in the returned order and none
\* is longer than 10 minutes; the chunk files exist and the original neither
\* exists nor is returned.
C15_SplitIntoTenMinuteChunks ==
    (pc = "split_returned" /\ fileBytes > WHISPER_MAX_BYTES /\ duration > 0) =>
        LET k == Len(audio_paths)
        IN /\ (k - 1) * chunk_ms < duration /\ duration <= k * chunk_ms
           /\ Len(segments) = k
           /\ \A i \in 1..k :
                 /\ segments[i].from = (i - 1) * chunk_ms
                 /\ segments[i].to = Min(i * chunk_ms, duration)
                 /\ segments[i].to - segments[i].from <= chunk_ms
                 /\ audio_paths[i] = ChunkFile(raw_path[1], i - 1)
                 /\ audio_paths[i] \in disk
           /\ segments[k].to = duration
           /\ raw_path \notin disk
           /\ raw_path \notin Range(audio_paths)

\* C15 witness: 60 minutes of audio in a file over the ceiling came back as 6
\* chunks.
C15_Witness ==
    /\ pc = "split_returned"
    /\ fileBytes > WHISPER_MAX_BYTES
    /\ duration = 6 * chunk_ms
    /\ Len(audio_paths) = 6
    /\ disk = Range(audio_paths)

\* C16: for a file of at most 24 * 1024 * 1024 bytes split_audio_if_needed
\* returns exactly the original path, raises nothing and leaves the temp
\* directory as it was; a larger file goes the way of the split (chunk paths
\* or an error, never the original path).
C16_CeilingInclusive ==
    /\ (pc \in {"split_returned", "split_raised"} /\ fileBytes <= 24 * 1024 * 1024) =>
          /\ pc = "split_returned"
          /\ audio_paths = <<raw_path>>
          /\ disk = {raw_path}
          /\ segments = <<>>
    /\ (pc = "split_returned" /\ fileBytes > 24 * 1024 * 1024) =>
          /\ raw_path \notin Range(audio_paths)
          /\ raw_path \notin disk
          /\ Len(segments) = Len(audio_paths)

\* C16 witness: a file of exactly the ceiling came back as it is, and a file
\* one byte larger is one of the inputs.
C16_Witness ==
    /\ pc = "split_returned"
    /\ fileBytes = 24 * 1024 * 1024
    /\ audio_paths = <<raw_path>>
    /\ WHISPER_MAX_BYTES + 1 \in Sizes

\* The children of the calls made so far, one after the other.
RECURSIVE Children(_)
Children(rs) ==
    IF Len(rs) = 0 THEN <<>>
    ELSE Children(SubSeq(rs, 1, Len(rs) - 1)) \o rs[Len(rs)].children

\* C17: the first call is the page creation with the first min(100, n)
\* blocks and every later call is an append; no call carries more than 100
\* blocks and no append is empty; the children of the calls, in call order, are
\* the first blocks of the list in order, and all of them once
\* create_episode_page has returned.
C17_BatchesOfAtMost100 ==
    /\ Len(requests) >= 1 =>
          /\ requests[1].call = "create"
          /\ requests[1].children =
                SubSeq(all_blocks, 1, IF Len(all_blocks) < 100 THEN Len(all_blocks) ELSE 100)
    /\ \A i \in 2..Len(requests) :
          requests[i].call = "append" /\ Len(requests[i].children) >= 1
    /\ \A i \in 1..Len(requests) : Len(requests[i].children) <= 100
    /\ Len(Children(requests)) <= Len(all_blocks)
    /\ Children(requests) = SubSeq(all_blocks, 1, Len(Children(requests)))
    /\ pc = "page_returned" => Children(requests) = all_blocks

\* C17 witness: a page of 250 blocks was written with three calls of 100, 100
\* and 50 blocks.
C17_Witness ==
    /\ pc = "page_returned"
    /\ Len(all_blocks) = 250
    /\ Len(requests) = 3
    /\ Len(requests[2].children) = 100
    /\ Len(requests[3].children) = 50

\* The recipes of the response, and the responses the claim is about (every
\* recipe has its required name).
ResponseRecipes == IF "recipes" \in DOMAIN response THEN response.recipes ELSE <<>>
RecipesNamed == \A i \in 1..Len(ResponseRecipes) : "name" \in DOMAIN ResponseRecipes[i]
TopFieldsDefaulted(I) ==
    /\ I.episode_summary =
          IF "episode_summary" \in DOMAIN response THEN response.episode_summary ELSE ""
    /\ \A f \in TopFields \ {"episode_summary", "recipes"} :
          I[f] = IF f \in DOMAIN response THEN response[f] ELSE <<>>
    /\ Len(I.recipes) = Len(ResponseRecipes)
    /\ \A i \in 1..Len(ResponseRecipes) : I.recipes[i].name = ResponseRecipes[i].name

\* C18 as stated: extract_insights raises nothing, the pipeline goes on to
\* publication, absent top-level fields are "" or the empty list, and an
\* absent recipe field is 'not mentioned'.
C18_AbsentRecipeFieldNotMentioned ==
    (pc \in {"publish", "finally"} /\ RecipesNamed) =>
        /\ pc = "publish"
        /\ ~IsNone(insights)
        /\ TopFieldsDefaulted(Val(insights))
        /\ \A i \in 1..Len(ResponseRecipes) : \A f \in OptionalRecipeFields :
              f \notin DOMAIN ResponseRecipes[i] =>
                  Val(insights).recipes[i][f] = Some("not mentioned")

\* C18 amended: as stated, except that an absent recipe field is None (and a
\* present one has the value of the response).
C18_AbsentRecipeFieldNone ==
    (pc \in {"publish", "finally"} /\ RecipesNamed) =>
        /\ pc = "publish"
        /\ ~IsNone(insights)
        /\ TopFieldsDefaulted(Val(insights))
        /\ \A i \in 1..Len(ResponseRecipes) : \A f \in OptionalRecipeFields :
              Val(insights).recipes[i][f] =
                  IF f \in DOMAIN ResponseRecipes[i]
                  THEN Some(ResponseRecipes[i][f]) ELSE None

\* C18 witness: a response without business_and_marketing and with a recipe
\* that has only its name went on to publication.
C18_Witness ==
    /\ pc = "publish"
    /\ "business_and_marketing" \notin DOMAIN response
    /\ ResponseRecipes = <<RecipeDict({"name"})>>
    /\ Val(insights).business_and_marketing = <<>>
    /\ Val(insights).recipes[1].style = None

\* C21: in download_audio every attempt starts from an absent destination
\* file: whatever an earlier attempt or an earlier process left at dest is
\* gone when the attempt makes its request and when it starts to write, and
\* the file returned holds the bytes of the successful attempt only, all of
\* them.
C21_AttemptStartsAbsent ==
    /\ pc \in {"dl_request", "dl_receive"} => raw_path \notin disk
    /\ pc = "dl_returned" =>
           /\ raw_path \in disk
           /\ destBytes = <<Bytes(attempt, TRUE)>>

\* C21: the second attempt succeeds after the first unlinked the partial file
\* of an earlier process and left a partial file of its own.
C21_Witness ==
    /\ pc = "dl_returned"
    /\ attempt = 2
    /\ removed = << <<Bytes(0, FALSE)>>, <<Bytes(1, FALSE)>> >>
    /\ destBytes = <<Bytes(2, TRUE)>>

\* C22: the two selection modes are mutually exclusive.  With --episode N the
\* targets are exactly the episode numbered N, whether or not N is in the
\* ledger and whatever --from and --limit say; without it every target is
\* unprocessed and at or above the floor, and a cap of k >= 0 leaves at most k.
\* The running (or last) process was given --episode N with N in the feed, and
\* it is past the selection: load_config returned, the ledger was loaded.
SingleSelected ==
    /\ ~IsNone(opts.episode) /\ Val(opts.episode) \in 1..Len(feed)
    /\ ~IsNone(config)
    /\ pc \notin {"state", "select"}
    /\ ~(pc = "exited" /\ outcomes = <<>> /\ LoadRaises(ledgerFile))
C22_ModesExclusive ==
    /\ SingleSelected =>
           /\ Len(targets) = 1
           /\ targets[1] = feed[Val(opts.episode)]
           /\ targets[1].number = Val(opts.episode)
    /\ BatchSelected =>
           /\ Numbers(targets) \subseteq Candidates(opts)
           /\ (~IsNone(opts.limit) /\ Val(opts.limit) >= 0) =>
                  Len(targets) <= Val(opts.limit)

\* C22 witness: --episode 1 --from 2 --limit 0 while episode 1 is in the
\* ledger: the filter, the floor and the cap would each drop it, and it is the
\* target.
C22_Witness ==
    /\ SingleSelected /\ pc = "download"
    /\ opts.episode = Some(1) /\ opts.from_episode = Some(2) /\ opts.limit = Some(0)
    /\ is_processed(st, 1)
    /\ Numbers(targets) = {1}

\* C23: ledger persistence is crash-safe for earlier entries: whenever the
\* process is dead, also when it was killed inside mark_processed (between the
\* truncation of the file and the end of the rewrite included), a fresh load
\* succeeds and reports every number persisted by an earlier call as processed.
C23_CrashKeepsEarlierEntries ==
    pc = "dead" =>
        /\ Loadable
        /\ \A n \in marked : is_processed(Fresh, n)

\* C24: resumability.  An episode whose pipeline failed in one run is among
\* the targets of the next run in all-unprocessed mode; and when such runs are
\* repeated against the unchanged feed and from some point on every stage
\* succeeds, eventually a fresh load of the ledger reports every episode of
\* the feed as processed.
AllInLedger == Loadable /\ \A n \in 1..Len(feed) : is_processed(Fresh, n)
C24_Resumable ==
    /\ [](pc = "announce" /\ IsBatchAll(opts) => prev.failed \subseteq Numbers(targets))
    /\ <>AllInLedger

====
